---- MODULE Spec2Model ----
(***************************************************************************)
(* Model of the mupen64plus GameCube-adapter input plugin (src/src/lib.rs). *)
(*                                                                         *)
(* Two parts share this module:                                            *)
(*  - the concurrent part: the host's entry points (PluginStartup,         *)
(*    PluginShutdown, GetKeys, ReadController), the polling thread spawned *)
(*    by PluginStartup and the mutex-protected cache LAST_INPUT_STATE;     *)
(*  - the mapper: read_keys_from_adapter as a function of the cached       *)
(*    state, the port index and the caller's BUTTONS value.                *)
(***************************************************************************)
EXTENDS Integers, FiniteSets, Sequences, TLC

(***************************************************************************)
(* Bounds of the model.                                                    *)
(***************************************************************************)
\* adapter reads the polling thread may start
MaxReads == 2
\* query calls the host may issue
MaxCalls == 2

(***************************************************************************)
(* Program constants.                                                      *)
(***************************************************************************)
DEADZONE == 40
\* PLUGIN_INFO.target_api_version, 0x020100
TARGET_API_VERSION == 131328
\* the m64p_error values PluginStartup returns
M64ERR_SUCCESS == "M64ERR_SUCCESS"
M64ERR_ALREADY_INIT == "M64ERR_ALREADY_INIT"
M64ERR_INCOMPATIBLE == "M64ERR_INCOMPATIBLE"
M64ERR_INPUT_INVALID == "M64ERR_INPUT_INVALID"
M64ERR_PLUGIN_FAIL == "M64ERR_PLUGIN_FAIL"

NoPort == -1
Ports == 0..3
Byte == 0..255

(***************************************************************************)
(* Fixed-width integer helpers.                                            *)
(***************************************************************************)
\* u8::wrapping_add
wrapping_add(a, b) == (a + b) % 256

as_i8_Unsigned(u) == u

\* `as i8 as i32`: reinterpret a byte as a signed 8-bit value
as_i8(u) == IF u >= 128 THEN u - 256 ELSE u

\* keys.Value |= bit, for a one-bit mask `bit`
BitOr(v, bit) == IF (v \div bit) % 2 = 1 THEN v ELSE v + bit

\* value & mask, for a mask that is a contiguous run of bits lo..hi-1,
\* given as lowest bit weight `lo` and width weight `span` (2^width)
MaskField(v, lo, span) == ((v \div lo) % span) * lo

TestBit(v, bit) == (v \div bit) % 2 = 1

\* The BUTTONS union: the 32-bit Value seen as its three bit-fields, the
\* sixteen button bits (bits 0..15) and the bytes of the two signed 8-bit
\* fields X_AXIS (bits 16..23) and Y_AXIS (bits 24..31).
Buttons(bits, x, y) == [bits |-> bits, x |-> x, y |-> y]

\* BUTTONS { Value: 0 }
ZeroKeys == Buttons(0, 0, 0)

\* bit-field accessors: the setters keep the low eight bits of their argument
set_X_AXIS(k, v) == [k EXCEPT !.x = v % 256]
set_Y_AXIS(k, v) == [k EXCEPT !.y = v % 256]
X_AXIS(k) == as_i8(k.x)
Y_AXIS(k) == as_i8(k.y)

(***************************************************************************)
(* The cached data: four ports, each a connection flag and a controller    *)
(* state.                                                                  *)
(***************************************************************************)
\* the controller state of a zeroed report
ZeroPad ==
    [a |-> FALSE, b |-> FALSE, x |-> FALSE, y |-> FALSE, start |-> FALSE,
     l |-> FALSE, r |-> FALSE, z |-> FALSE,
     up |-> FALSE, down |-> FALSE, left |-> FALSE, right |-> FALSE,
     stick_x |-> 0, stick_y |-> 0, substick_x |-> 0, substick_y |-> 0,
     trigger_left |-> 0, trigger_right |-> 0]

\* a pad at rest: sticks centred, nothing pressed
RestPad ==
    [ZeroPad EXCEPT !.stick_x = 128, !.stick_y = 128,
                    !.substick_x = 128, !.substick_y = 128]

\* the state decoded from a zeroed report: nothing connected
ZeroState == [p \in Ports |-> [connected |-> FALSE, pad |-> ZeroPad]]

\* InputState::is_connected for a port of the collection
is_connected(input_state, control) == input_state[control].connected

\* InputState::controller_state
controller_state(input_state, control) == input_state[control].pad

(***************************************************************************)
(* The mapper: the part of read_keys_from_adapter after the lock is taken  *)
(* and the port is known to be connected.                                  *)
(***************************************************************************)
InDeadzone_PerAxis(x, y) == x * x < DEADZONE * DEADZONE /\ y * y < DEADZONE * DEADZONE

InDeadzone(x, y) == x * x + y * y < DEADZONE * DEADZONE

\* the (stick_x, stick_y) pair of lines 328..338
Stick(s) ==
    LET x == as_i8(wrapping_add(s.stick_x, 128))
        y == as_i8(wrapping_add(s.stick_y, 128))
    IN  IF InDeadzone(x, y) THEN <<0, 0>> ELSE <<x, y>>

TriggerPressed_Ge(t) == t >= 148

TriggerPressed(t) == t > 148

OrIf_Always(v, cond, bit) == BitOr(v, bit)

OrIf(v, cond, bit) == IF cond THEN BitOr(v, bit) ELSE v

SubstickLow_Le(v) == v <= 88

\* the substick tests of lines 322..325
SubstickLow(v) == v < 88

SubstickHigh(v) == v > 168

CLeft_XButton(s) == s.x \/ SubstickLow(s.substick_x)

\* line 322: the Y button or the substick pushed left
CLeft(s) == s.y \/ SubstickLow(s.substick_x)

\* line 323: the X button or the substick pushed right
CRight(s) == s.x \/ SubstickHigh(s.substick_x)

\* lines 322..386: the new BUTTONS value for a connected port
MapKeys(s, keys) ==
    LET c_left == CLeft(s)
        c_right == CRight(s)
        c_down == SubstickLow(s.substick_y)
        c_up == SubstickHigh(s.substick_y)
        st == Stick(s)
        v1 == OrIf(keys.bits, s.right, 1)
        v2 == OrIf(v1, s.left, 2)
        v3 == OrIf(v2, s.down, 4)
        v4 == OrIf(v3, s.up, 8)
        v5 == OrIf(v4, s.start, 16)
        v6 == OrIf(v5, s.l \/ TriggerPressed(s.trigger_left), 32)
        v7 == OrIf(v6, s.b, 64)
        v8 == OrIf(v7, s.a, 128)
        v9 == OrIf(v8, c_right, 256)
        v10 == OrIf(v9, c_left, 512)
        v11 == OrIf(v10, c_down, 1024)
        v12 == OrIf(v11, c_up, 2048)
        v13 == OrIf(v12, s.r \/ TriggerPressed(s.trigger_right), 4096)
        v14 == OrIf(v13, s.z, 8192)
    IN  set_Y_AXIS(set_X_AXIS([keys EXCEPT !.bits = v14], st[1]), st[2])


\* read_keys_from_adapter once the lock is held, for a port of the collection:
\* a port that is not connected leaves the caller's structure alone
read_keys(input_state, control, keys) ==
    IF ~is_connected(input_state, control)
    THEN keys
    ELSE MapKeys(controller_state(input_state, control), keys)

(***************************************************************************)
(* ReadController's command buffer: seven bytes, command[k] of the code is *)
(* element k + 1 here.                                                     *)
(***************************************************************************)
ReadCommand(x) ==
    CASE x = 0 -> "GetStatus"
      [] x = 1 -> "ReadKeys"
      [] x = 255 -> "ResetController"
      [] x = 4 -> "ReadEepRom"
      [] x = 5 -> "WriteEepRom"
      [] OTHER -> "Unrecognized"

\* the four bytes of buttons.Value, little-endian
U32Bytes(k) == <<k.bits % 256, (k.bits \div 256) % 256, k.x, k.y>>

\* *(command.add(3) as *mut u32) = buttons.Value: the bytes of the store
\* that fall inside the caller's buffer (bytes 3..6 of the code)
WriteU32(command, k) ==
    [i \in 1..Len(command) |->
        IF i \in 4..7 THEN U32Bytes(k)[i - 3] ELSE command[i]]

\* the bytes of the same store that fall past the end of the buffer: the
\* last one when the buffer has the six bytes the safety comment of line 226
\* asks for
WriteBeyond(command, k) ==
    [i \in 1..(IF Len(command) >= 7 THEN 0 ELSE 7 - Len(command)) |->
        U32Bytes(k)[Len(command) - 3 + i]]

\* the u32 store of line 245 goes through command + 3, a pointer to u8: when
\* that address is not a multiple of 4 the store is undefined behaviour, and
\* the build either carries it out or aborts the process at it
StoreOutcomes(aligned) ==
    IF aligned THEN {"written"} ELSE {"written", "aborted"}

\* the 32-bit value in bytes 3..6 of the buffer, as a BUTTONS
ReadU32(command) ==
    Buttons(command[4] + command[5] * 256, command[6], command[7])

\* the arms of ReadController that do not touch the cache
CommandReply(command) ==
    LET cmd == ReadCommand(command[3])
    IN  CASE cmd \in {"GetStatus", "ResetController"} ->
                [command EXCEPT ![4] = 5, ![5] = 0, ![6] = 2]
          [] cmd = "Unrecognized" ->
                [command EXCEPT ![2] = IF command[2] >= 128 THEN command[2]
                                       ELSE command[2] + 128]
          [] OTHER -> command

(***************************************************************************)
(* PluginStartup's version test (lines 102..106).                          *)
(***************************************************************************)
Incompatible(core_ver) ==
    \/ core_ver < TARGET_API_VERSION
    \/ MaskField(core_ver, 65536, 4096) # MaskField(TARGET_API_VERSION, 65536, 4096)


(***************************************************************************)
(* State.                                                                  *)
(***************************************************************************)
VARIABLES
    alive,                \* the process has not been aborted
    debug_init,           \* debug::init has succeeded once
    startup_pc,           \* where the first PluginStartup call stands
    startup_ret,          \* what the first PluginStartup returned ("none" yet)
    again_ret,            \* what the last later PluginStartup returned ("none" yet)
    startup_in,           \* what the first PluginStartup met: symbol, version test, adapter
    startup_log,          \* the error message PluginStartup logged ("none" yet)
    ADAPTER_READ_THREAD,  \* the stop flag (true: keep polling)
    LAST_INPUT_STATE,     \* the OnceCell: set or not
    mutex,                \* the Mutex around the cached state: owner, poisoned
    cache,                \* the InputState inside the mutex
    poll,                 \* the polling thread
    host,                 \* the host's threads that issue queries
    seeds,                \* how many times the cell was created and seeded
    spawns,               \* how many polling threads were spawned
    reads,                \* adapter reads started by the polling thread
    reads_after_stop,     \* of these, reads started with the stop flag set
    calls,                \* query calls issued by the host
    m_in,                 \* mapper checks: the input of one query
    m_out                 \* mapper checks: what the query left behind

vars == <<alive, debug_init, startup_ret, startup_in, startup_log, startup_pc, again_ret,
          ADAPTER_READ_THREAD, LAST_INPUT_STATE,
          mutex, cache, poll, host, seeds, spawns, reads, reads_after_stop,
          calls, m_in, m_out>>

conc_vars == <<alive, debug_init, startup_ret, startup_in, startup_log, startup_pc, again_ret,
               ADAPTER_READ_THREAD,
               LAST_INPUT_STATE, mutex, cache, poll, host, seeds, spawns, reads,
               reads_after_stop, calls>>

\* the host's threads: one calls GetKeys, the other ReadController
Hosts == {"h1", "h2"}

EntryOf(h) == IF h = "h1" THEN "GetKeys" ELSE "ReadController"

(***************************************************************************)
(* Inputs of the concurrent model.                                         *)
(***************************************************************************)
\* what CoreGetAPIVersions may report: too old, exact, newer minor, other major
CoreVersions == {131072, 131328, 131329, 196608}

\* port 0 holds a pad with A pressed
ReportA ==
    [ZeroState EXCEPT ![0] = [connected |-> TRUE,
                              pad |-> [RestPad EXCEPT !.a = TRUE]]]

Reports == {ReportA}

\* GCAdapter::read(): a transfer that succeeds decodes the report; one that
\* fails (timeout, transfer error) leaves the zeroed buffer to be decoded
ReadResults ==
    {[ok |-> TRUE, st |-> r] : r \in Reports} \cup {[ok |-> FALSE, st |-> ZeroState]}

\* port indices the host passes to GetKeys and to ReadController; -1 and 4
\* are outside the collection, and ReadController is the entry point that
\* gets them
GetKeysControls == {0}
ReadControllerControls == {0, NoPort, 4}
\* BUTTONS values the host passes to GetKeys
CallKeys == {ZeroKeys}
\* command bytes the host passes to ReadController
CallCommands == {0, 1}

\* the ports of the four-entry collection: an index outside it panics
ValidPort(control) == control \in Ports

(***************************************************************************)
(* Initial state: the statics of lines 57..58, no thread spawned.          *)
(***************************************************************************)
\* GCAdapter::new(): connected, or the stage at which connecting failed
ConnectErrors == {"NotFound", "OpenFailed", "ClaimFailed", "InitFailed"}

ConnectResults == {"Ok"} \cup ConnectErrors

\* before any PluginStartup: nothing met yet
NoStartup ==
    [called |-> FALSE, sym |-> FALSE, version_ok |-> FALSE, connect |-> "none"]

IdleHost ==
    [pc |-> "idle", kind |-> "none", control |-> 0, keys |-> ZeroKeys,
     command |-> <<0, 0, 0, 0, 0, 0, 0>>, aligned |-> TRUE,
     conn_id |-> -1, ctl_id |-> -1]

NoPoll == [pc |-> "none", pending |-> ZeroState, id |-> 0, ok |-> TRUE]

EmptyCache == [conn_id |-> -1, ctl_id |-> -1, st |-> ZeroState]

NoMapperInput == [control |-> 0, keys |-> ZeroKeys, st |-> ZeroState]

NoMapperOutput ==
    [via |-> "none", keys |-> ZeroKeys, command_in |-> <<0, 0, 0, 0, 0, 0, 0>>,
     aligned |-> TRUE, aborted |-> FALSE,
     command |-> <<0, 0, 0, 0, 0, 0, 0>>, beyond |-> <<>>]

ConcInit ==
    /\ alive = TRUE
    /\ debug_init = FALSE
    /\ startup_ret = "none"
    /\ startup_in = NoStartup
    /\ startup_log = "none"
    /\ startup_pc = "none"
    /\ again_ret = "none"
    /\ ADAPTER_READ_THREAD = TRUE
    /\ LAST_INPUT_STATE = FALSE
    /\ mutex = [owner |-> "none", poisoned |-> FALSE]
    /\ cache = EmptyCache
    /\ poll = NoPoll
    /\ host = [h \in Hosts |-> IdleHost]
    /\ seeds = 0
    /\ spawns = 0
    /\ reads = 0
    /\ reads_after_stop = 0
    /\ calls = 0

Init ==
    /\ ConcInit
    /\ m_in = NoMapperInput
    /\ m_out = NoMapperOutput


(***************************************************************************)
(* PluginStartup (lines 64..136).  The first call runs in steps: between   *)
(* debug::init, the call into the core, GCAdapter::new(), the seeding read *)
(* and the spawn, other threads of the host run.                           *)
(***************************************************************************)
\* debug::init fails when the plugin was initialised before (line 69)
AlreadyInit(done) == done

SeedCache_Empty(st) == EmptyCache

\* Mutex::new(gc_adapter.read()) of line 116: the cell is created around the
\* state of a first read; 0 is the identity of that read
SeedCache(st) == [conn_id |-> 0, ctl_id |-> 0, st |-> st]

Connects_Any(r) == TRUE

\* `if let Ok(gc) = GCAdapter::new()` of line 108
Connects(r) == r = "Ok"

\* lines 79..106: what the symbol lookup and the version test return, if
\* they return ("none": the call goes on to line 108)
CoreReturn(sym, core_ver) ==
    IF ~sym THEN M64ERR_INPUT_INVALID
    ELSE IF Incompatible(core_ver) THEN M64ERR_INCOMPATIBLE
    ELSE "none"

\* lines 108..113: what a failed connection returns ("none": connected, the
\* call goes on to line 115)
ConnectReturn(connect) ==
    IF ~Connects(connect) THEN M64ERR_PLUGIN_FAIL ELSE "none"

\* the Error-level message of line 111; the Err of GCAdapter::new() is not
\* part of it
ConnectLog(connect) ==
    IF ~Connects(connect) THEN "Could not connect to GameCube adapter!"
    ELSE "none"

\* line 69, first call: debug::init succeeds
StartupInit ==
    /\ alive
    /\ ~AlreadyInit(debug_init)
    /\ debug_init' = TRUE
    /\ startup_pc' = "core"
    /\ startup_in' = [NoStartup EXCEPT !.called = TRUE]
    /\ UNCHANGED <<alive, startup_ret, startup_log, again_ret,
                   ADAPTER_READ_THREAD, LAST_INPUT_STATE, mutex,
                   cache, poll, host, seeds, spawns, reads, reads_after_stop,
                   calls, m_in, m_out>>

\* lines 69..71, any later call: debug::init fails
StartupAgain ==
    /\ alive
    /\ AlreadyInit(debug_init)
    /\ again_ret' = M64ERR_ALREADY_INIT
    /\ UNCHANGED <<alive, debug_init, startup_ret, startup_in, startup_log,
                   startup_pc, ADAPTER_READ_THREAD, LAST_INPUT_STATE, mutex,
                   cache, poll, host, seeds, spawns, reads, reads_after_stop,
                   calls, m_in, m_out>>

\* lines 77..106: the symbol lookup, the call into the core, the version test
StartupCore ==
    /\ alive
    /\ startup_pc = "core"
    /\ \E sym \in BOOLEAN, core_ver \in CoreVersions :
          /\ startup_in' = [startup_in EXCEPT
                              !.sym = sym,
                              !.version_ok = ~Incompatible(core_ver)]
          /\ startup_ret' = CoreReturn(sym, core_ver)
          /\ startup_pc' = IF CoreReturn(sym, core_ver) = "none"
                           THEN "connect" ELSE "returned"
    /\ UNCHANGED <<alive, debug_init, startup_log, again_ret,
                   ADAPTER_READ_THREAD, LAST_INPUT_STATE, mutex,
                   cache, poll, host, seeds, spawns, reads, reads_after_stop,
                   calls, m_in, m_out>>

\* lines 108..113: GCAdapter::new() returns; connected, the call enters the
\* seeding read of line 116
StartupConnect ==
    /\ alive
    /\ startup_pc = "connect"
    /\ \E connect \in ConnectResults :
          /\ startup_in' = [startup_in EXCEPT !.connect = connect]
          /\ startup_ret' = ConnectReturn(connect)
          /\ startup_log' = ConnectLog(connect)
          /\ startup_pc' = IF ConnectReturn(connect) = "none"
                           THEN "seed" ELSE "returned"
    /\ UNCHANGED <<alive, debug_init, again_ret,
                   ADAPTER_READ_THREAD, LAST_INPUT_STATE, mutex,
                   cache, poll, host, seeds, spawns, reads, reads_after_stop,
                   calls, m_in, m_out>>

\* lines 115..117: the seeding read returns and the cell is set around its
\* state.  set() on a cell that is already set returns Err and the unwrap
\* of line 117 panics before anything is spawned.
StartupSeed ==
    /\ alive
    /\ startup_pc = "seed"
    /\ \E seed \in ReadResults :
          IF LAST_INPUT_STATE
          THEN /\ startup_ret' = "panicked"
               /\ startup_pc' = "panicked"
               /\ UNCHANGED <<LAST_INPUT_STATE, cache, seeds>>
          ELSE /\ cache' = SeedCache(seed.st)
               /\ LAST_INPUT_STATE' = TRUE
               /\ seeds' = seeds + 1
               /\ startup_pc' = "spawn"
               /\ UNCHANGED startup_ret
    /\ UNCHANGED <<alive, debug_init, startup_in, startup_log, again_ret,
                   ADAPTER_READ_THREAD, mutex, poll, host, spawns, reads,
                   reads_after_stop, calls, m_in, m_out>>

\* lines 118..135: the thread is spawned and the call returns success
StartupSpawn ==
    /\ alive
    /\ startup_pc = "spawn"
    /\ spawns' = spawns + 1
    /\ poll' = [NoPoll EXCEPT !.pc = "check"]
    /\ startup_ret' = M64ERR_SUCCESS
    /\ startup_pc' = "returned"
    /\ UNCHANGED <<alive, debug_init, startup_in, startup_log, again_ret,
                   ADAPTER_READ_THREAD, LAST_INPUT_STATE, mutex, cache, host,
                   seeds, reads, reads_after_stop, calls, m_in, m_out>>

PluginStartup ==
    \/ StartupInit
    \/ StartupAgain
    \/ StartupCore
    \/ StartupConnect
    \/ StartupSeed
    \/ StartupSpawn

(***************************************************************************)
(* PluginShutdown (lines 142..148).                                        *)
(***************************************************************************)
PluginShutdown ==
    /\ alive
    /\ ADAPTER_READ_THREAD' = FALSE
    /\ UNCHANGED <<alive, debug_init, startup_ret, startup_in, startup_log, startup_pc, again_ret, LAST_INPUT_STATE, mutex, cache,
                   poll, host, seeds, spawns, reads, reads_after_stop, calls, m_in, m_out>>

(***************************************************************************)
(* The mutex.                                                              *)
(***************************************************************************)
MutexFree_NoExclusion(m) == TRUE

\* Mutex::lock returns only when no thread holds the guard
MutexFree(m) == m.owner = "none"

OwnerAfterStore_Kept == "poll"

\* the temporary guard of lines 124..127 is dropped at the end of the
\* statement
OwnerAfterStore == "none"

(***************************************************************************)
(* The polling thread (lines 120..133).                                    *)
(***************************************************************************)
LoopCond_Always(flag) == TRUE

\* while ADAPTER_READ_THREAD.load(Relaxed)
LoopCond(flag) == flag

AfterRead_Unwrap(ok) == IF ok THEN "lock" ELSE "panicked"

\* the value read is stored whatever the transfer did: the right-hand side
\* of line 127 is evaluated, then the lock of line 125 is taken
AfterRead(ok) == "lock"

PollCheck ==
    /\ alive
    /\ poll.pc = "check"
    /\ LoopCond(ADAPTER_READ_THREAD) => reads < MaxReads
    /\ poll' = [poll EXCEPT !.pc = IF LoopCond(ADAPTER_READ_THREAD)
                                   THEN "call" ELSE "done"]
    /\ UNCHANGED <<alive, debug_init, startup_ret, startup_in, startup_log, startup_pc, again_ret, ADAPTER_READ_THREAD,
                   LAST_INPUT_STATE, mutex, cache, host, seeds, spawns, reads,
                   reads_after_stop, calls, m_in, m_out>>

\* gc_adapter.read() is entered
PollReadStart ==
    /\ alive
    /\ poll.pc = "call"
    /\ poll' = [poll EXCEPT !.pc = "read"]
    /\ reads' = reads + 1
    /\ reads_after_stop' = reads_after_stop + (IF ADAPTER_READ_THREAD THEN 0 ELSE 1)
    /\ UNCHANGED <<alive, debug_init, startup_ret, startup_in, startup_log, startup_pc, again_ret, ADAPTER_READ_THREAD,
                   LAST_INPUT_STATE, mutex, cache, host, seeds, spawns, calls, m_in, m_out>>

\* gc_adapter.read() returns
PollReadReturn ==
    /\ alive
    /\ poll.pc = "read"
    /\ \E r \in ReadResults :
          poll' = [pc |-> AfterRead(r.ok), pending |-> r.st, id |-> reads,
                   ok |-> r.ok]
    /\ UNCHANGED <<alive, debug_init, startup_ret, startup_in, startup_log, startup_pc, again_ret, ADAPTER_READ_THREAD,
                   LAST_INPUT_STATE, mutex, cache, host, seeds, spawns, reads,
                   reads_after_stop, calls, m_in, m_out>>

\* last_state.lock(): the mutex is acquired either way: Ok(guard), or on a
\* poisoned mutex Err(PoisonError) that carries the guard into the closure
\* of map_err, so the error is logged with the mutex held
PollLock ==
    /\ alive
    /\ poll.pc = "lock"
    /\ MutexFree(mutex)
    /\ mutex' = [mutex EXCEPT !.owner = "poll"]
    /\ poll' = [poll EXCEPT !.pc = IF mutex.poisoned THEN "lockerr"
                                   ELSE "store1"]
    /\ UNCHANGED <<alive, debug_init, startup_ret, startup_in, startup_log, startup_pc, again_ret, ADAPTER_READ_THREAD,
                   LAST_INPUT_STATE, cache, host, seeds, spawns, reads,
                   reads_after_stop, calls, m_in, m_out>>

\* lines 126..127 on a poisoned mutex: the closure of map_err has logged
\* the error with the guard of the PoisonError still alive; the guard is
\* dropped and unwrap() panics
PollLockErr ==
    /\ alive
    /\ poll.pc = "lockerr"
    /\ mutex' = [mutex EXCEPT !.owner = "none"]
    /\ poll' = [poll EXCEPT !.pc = "panicked"]
    /\ UNCHANGED <<alive, debug_init, startup_ret, startup_in, startup_log,
                   startup_pc, again_ret, ADAPTER_READ_THREAD,
                   LAST_INPUT_STATE, cache, host, seeds, spawns, reads,
                   reads_after_stop, calls, m_in, m_out>>

\* *guard = state, first part of the copy: the connection flags
PollStore1 ==
    /\ alive
    /\ poll.pc = "store1"
    /\ cache' = [cache EXCEPT
                   !.conn_id = poll.id,
                   !.st = [p \in Ports |->
                             [cache.st[p] EXCEPT
                                !.connected = poll.pending[p].connected]]]
    /\ poll' = [poll EXCEPT !.pc = "store2"]
    /\ UNCHANGED <<alive, debug_init, startup_ret, startup_in, startup_log, startup_pc, again_ret, ADAPTER_READ_THREAD,
                   LAST_INPUT_STATE, mutex, host, seeds, spawns, reads,
                   reads_after_stop, calls, m_in, m_out>>

\* second part of the copy: the controller states; then the guard is dropped
PollStore2 ==
    /\ alive
    /\ poll.pc = "store2"
    /\ cache' = [cache EXCEPT
                   !.ctl_id = poll.id,
                   !.st = [p \in Ports |->
                             [cache.st[p] EXCEPT !.pad = poll.pending[p].pad]]]
    /\ mutex' = [mutex EXCEPT !.owner = OwnerAfterStore]
    /\ poll' = [poll EXCEPT !.pc = "sleep"]
    /\ UNCHANGED <<alive, debug_init, startup_ret, startup_in, startup_log, startup_pc, again_ret, ADAPTER_READ_THREAD,
                   LAST_INPUT_STATE, host, seeds, spawns, reads,
                   reads_after_stop, calls, m_in, m_out>>

\* thread::sleep(1 ms)
PollSleep ==
    /\ alive
    /\ poll.pc = "sleep"
    /\ poll' = [poll EXCEPT !.pc = "check"]
    /\ UNCHANGED <<alive, debug_init, startup_ret, startup_in, startup_log, startup_pc, again_ret, ADAPTER_READ_THREAD,
                   LAST_INPUT_STATE, mutex, cache, host, seeds, spawns, reads,
                   reads_after_stop, calls, m_in, m_out>>

Poll ==
    \/ PollCheck
    \/ PollReadStart
    \/ PollReadReturn
    \/ PollLock
    \/ PollLockErr
    \/ PollStore1
    \/ PollStore2
    \/ PollSleep


(***************************************************************************)
(* The query entry points, each on one of the host's threads.              *)
(***************************************************************************)
CanCall(h) ==
    /\ alive
    /\ host[h].pc \in {"idle", "returned"}
    /\ calls < MaxCalls

\* GetKeys (lines 199..207): enters read_keys_from_adapter with the caller's
\* structure
GetKeys(h) ==
    /\ CanCall(h)
    /\ EntryOf(h) = "GetKeys"
    /\ \E control \in GetKeysControls, keys \in CallKeys :
          host' = [host EXCEPT ![h] =
                     [IdleHost EXCEPT !.pc = "get", !.kind = "GetKeys",
                                      !.control = control, !.keys = keys]]
    /\ calls' = calls + 1
    /\ UNCHANGED <<alive, debug_init, startup_ret, startup_in, startup_log, startup_pc, again_ret, ADAPTER_READ_THREAD,
                   LAST_INPUT_STATE, mutex, cache, poll, seeds, spawns, reads,
                   reads_after_stop, m_in, m_out>>

\* ReadController (lines 228..254): control -1 returns at once, ReadKeys
\* enters read_keys_from_adapter with a zeroed structure, the other commands
\* answer from the command byte alone
ReadControllerEntry(control, command) ==
    IF control = NoPort
    THEN [pc |-> "returned", command |-> command]
    ELSE IF ReadCommand(command[3]) = "ReadKeys"
         THEN [pc |-> "get", command |-> command]
         ELSE [pc |-> "returned", command |-> CommandReply(command)]

ReadController(h) ==
    /\ CanCall(h)
    /\ EntryOf(h) = "ReadController"
    /\ \E control \in ReadControllerControls, c \in CallCommands,
          aligned \in BOOLEAN :
          LET e == ReadControllerEntry(control, <<0, 0, c, 0, 0, 0, 0>>)
          IN  \* the alignment of command + 3 matters only to a call that
              \* can reach the store of line 245
              /\ (e.pc # "get" \/ ~ValidPort(control)) => aligned
              /\ host' = [host EXCEPT ![h] =
                            [IdleHost EXCEPT !.pc = e.pc,
                                             !.kind = "ReadController",
                                             !.control = control,
                                             !.command = e.command,
                                             !.aligned = aligned]]
    /\ calls' = calls + 1
    /\ UNCHANGED <<alive, debug_init, startup_ret, startup_in, startup_log, startup_pc, again_ret, ADAPTER_READ_THREAD,
                   LAST_INPUT_STATE, mutex, cache, poll, seeds, spawns, reads,
                   reads_after_stop, m_in, m_out>>

(***************************************************************************)
(* read_keys_from_adapter (lines 301..387), step by step.                  *)
(***************************************************************************)
\* LAST_INPUT_STATE.get().unwrap(): a cell that is not set is a panic
QGet(h) ==
    /\ alive
    /\ host[h].pc = "get"
    /\ host' = [host EXCEPT ![h].pc = IF LAST_INPUT_STATE THEN "lock"
                                      ELSE "panicked"]
    /\ UNCHANGED <<alive, debug_init, startup_ret, startup_in, startup_log, startup_pc, again_ret, ADAPTER_READ_THREAD,
                   LAST_INPUT_STATE, mutex, cache, poll, seeds, spawns, reads,
                   reads_after_stop, calls, m_in, m_out>>

\* .lock(): the mutex is acquired either way: Ok(guard), or on a poisoned
\* mutex Err(PoisonError) that carries the guard into the closure of map_err
QLock(h) ==
    /\ alive
    /\ host[h].pc = "lock"
    /\ MutexFree(mutex)
    /\ mutex' = [mutex EXCEPT !.owner = h]
    /\ host' = [host EXCEPT ![h].pc = IF mutex.poisoned THEN "lockerr"
                                      ELSE "conn"]
    /\ UNCHANGED <<alive, debug_init, startup_ret, startup_in, startup_log, startup_pc, again_ret, ADAPTER_READ_THREAD,
                   LAST_INPUT_STATE, cache, poll, seeds, spawns, reads,
                   reads_after_stop, calls, m_in, m_out>>

\* lines 306..312 on a poisoned mutex: the closure of map_err has logged
\* the error with the guard of the PoisonError still alive; the guard is
\* dropped and unwrap() panics
QLockErr(h) ==
    /\ alive
    /\ host[h].pc = "lockerr"
    /\ mutex' = [mutex EXCEPT !.owner = "none"]
    /\ host' = [host EXCEPT ![h].pc = "panicked"]
    /\ UNCHANGED <<alive, debug_init, startup_ret, startup_in, startup_log,
                   startup_pc, again_ret, ADAPTER_READ_THREAD,
                   LAST_INPUT_STATE, cache, poll, seeds, spawns, reads,
                   reads_after_stop, calls, m_in, m_out>>

\* read_keys_from_adapter returns: GetKeys returns to its caller,
\* ReadController goes on to the store of line 245
Returned(hs, keys, ctl_id) ==
    [hs EXCEPT !.pc = IF hs.kind = "ReadController" THEN "store" ELSE "returned",
               !.keys = keys, !.ctl_id = ctl_id]

\* the query leaves the cached state as it found it
QueryCache_Take(c) == [c EXCEPT !.st = ZeroState]

QueryCache(c) == c

\* input_state.is_connected(control), lines 314..316.  An index outside the
\* collection panics with the guard held: the guard's drop poisons the mutex.
QIsConnected(h) ==
    /\ alive
    /\ host[h].pc = "conn"
    /\ IF ~ValidPort(host[h].control)
       THEN /\ host' = [host EXCEPT ![h].pc = "panicked"]
            /\ mutex' = [owner |-> "none", poisoned |-> TRUE]
       ELSE IF ~is_connected(cache.st, host[h].control)
       THEN /\ host' = [host EXCEPT ![h] =
                          Returned([host[h] EXCEPT !.conn_id = cache.conn_id],
                                   host[h].keys, -1)]
            /\ mutex' = [mutex EXCEPT !.owner = "none"]
       ELSE /\ host' = [host EXCEPT ![h].pc = "map",
                                    ![h].conn_id = cache.conn_id]
            /\ UNCHANGED mutex
    /\ cache' = QueryCache(cache)
    /\ UNCHANGED <<alive, debug_init, startup_ret, startup_in, startup_log, startup_pc, again_ret, ADAPTER_READ_THREAD,
                   LAST_INPUT_STATE, poll, seeds, spawns, reads,
                   reads_after_stop, calls, m_in, m_out>>

\* lines 318..387: controller_state, the mapping, the guard dropped on return
QMap(h) ==
    /\ alive
    /\ host[h].pc = "map"
    /\ host' = [host EXCEPT ![h] =
                  Returned(host[h],
                           MapKeys(controller_state(cache.st, host[h].control),
                                   host[h].keys),
                           cache.ctl_id)]
    /\ mutex' = [mutex EXCEPT !.owner = "none"]
    /\ cache' = QueryCache(cache)
    /\ UNCHANGED <<alive, debug_init, startup_ret, startup_in, startup_log, startup_pc, again_ret, ADAPTER_READ_THREAD,
                   LAST_INPUT_STATE, poll, seeds, spawns, reads,
                   reads_after_stop, calls, m_in, m_out>>

\* line 245: ReadController stores buttons.Value at command + 3 and
\* returns, or the process is aborted at a misaligned store
QStore(h) ==
    /\ alive
    /\ host[h].pc = "store"
    /\ \E o \in StoreOutcomes(host[h].aligned) :
          IF o = "written"
          THEN /\ host' = [host EXCEPT
                             ![h].pc = "returned",
                             ![h].command = WriteU32(host[h].command, host[h].keys)]
               /\ UNCHANGED alive
          ELSE /\ host' = [host EXCEPT ![h].pc = "aborted"]
               /\ alive' = FALSE
    /\ UNCHANGED <<debug_init, startup_ret, startup_in, startup_log, startup_pc, again_ret,
                   ADAPTER_READ_THREAD, LAST_INPUT_STATE, mutex, cache, poll,
                   seeds, spawns, reads, reads_after_stop, calls, m_in, m_out>>

Query(h) ==
    \/ QGet(h)
    \/ QLock(h)
    \/ QLockErr(h)
    \/ QIsConnected(h)
    \/ QMap(h)
    \/ QStore(h)

(***************************************************************************)
(* A panic that unwinds out of an extern "C" entry point (PluginStartup,   *)
(* GetKeys, ReadController): the unwinding has dropped the guard, and at   *)
(* the boundary of the entry point the process is aborted.                 *)
(***************************************************************************)
Abort ==
    /\ alive
    /\ startup_ret = "panicked" \/ \E h \in Hosts : host[h].pc = "panicked"
    /\ alive' = FALSE
    /\ UNCHANGED <<debug_init, startup_ret, startup_in, startup_log, startup_pc, again_ret, ADAPTER_READ_THREAD,
                   LAST_INPUT_STATE, mutex, cache, poll, host, seeds, spawns,
                   reads, reads_after_stop, calls, m_in, m_out>>

Next ==
    \/ PluginStartup
    \/ PluginShutdown
    \/ Poll
    \/ \E h \in Hosts : GetKeys(h) \/ ReadController(h) \/ Query(h)
    \/ Abort

Spec == Init /\ [][Next]_vars


(***************************************************************************)
(* Properties of the concurrent part.                                      *)
(***************************************************************************)
InFlight(h) ==
    host[h].pc \in {"get", "lock", "lockerr", "conn", "map", "store"}

Reading(h) == host[h].pc \in {"conn", "map"}

\* C1: every query that mapped a port took the connection flag and the
\* controller state from one and the same stored state, the seed (0) or the
\* state of one publish (the id of a read that has returned); a query that
\* stopped at the connection flag took it from such a state too.
C1_OneStatePerQuery ==
    \A h \in Hosts :
        /\ host[h].pc = "map" => host[h].conn_id = cache.conn_id
        /\ (host[h].pc = "returned" /\ host[h].conn_id # -1) =>
              /\ host[h].conn_id \in 0..reads
              /\ host[h].ctl_id \in {-1, host[h].conn_id}
        /\ Reading(h) => cache.conn_id = cache.ctl_id

\* a query returned the state of the first publish and a later publish has
\* replaced it since, while the other thread has queried as well
C1_Witness ==
    \E h \in Hosts :
        /\ host[h].pc = "returned"
        /\ host[h].ctl_id = 1
        /\ cache.ctl_id = 2
        /\ \E g \in Hosts \ {h} : host[g].pc = "returned" /\ host[g].conn_id = 2

\* C2: the polling thread holds the mutex exactly while it stores the state
\* it has read (after the read returned, until the store is done) or, on a
\* poisoned mutex, while it logs the lock error before it panics; so never
\* while a read is about to start or in progress.
C2_NoLockAcrossRead ==
    (mutex.owner = "poll") <=> (poll.pc \in {"lockerr", "store1", "store2"})

\* a read of a later iteration is in progress, after a publish
C2_Witness == poll.pc = "read" /\ cache.ctl_id >= 1 /\ mutex.owner # "poll"

\* C3: a query that reads the cache finds the cell set and holding the state
\* of a read (the seed or a publish), never an empty cell.
C3_SeededBeforeRead ==
    \A h \in Hosts :
        Reading(h) =>
            /\ LAST_INPUT_STATE
            /\ seeds = 1
            /\ cache.conn_id >= 0
            /\ cache.ctl_id >= 0

\* one query is reading the seeded cache, another came before the seeding
\* and panicked on the empty cell
C3_Witness ==
    \E h \in Hosts, g \in Hosts :
        /\ host[h].pc = "map"
        /\ host[g].pc = "panicked"
        /\ ~mutex.poisoned


InStore == poll.pc \in {"store1", "store2"}

\* C4 (as claimed): an iteration whose read failed leaves the cached state
\* as it was; the cached state changes only after a read that succeeded.
C4_FailedReadKeepsCache ==
    [][(InStore /\ ~poll.ok) => cache'.st = cache.st]_vars

PollEnded == poll.pc \in {"done", "panicked"}

\* C5 (as claimed): the thread leaves the loop only with the stop flag set.
C5_StopsOnlyOnFlag == PollEnded => ~ADAPTER_READ_THREAD

\* C5 (amended): the thread leaves the loop by its loop test only with the
\* stop flag set, and otherwise only by the panic on a poisoned mutex; a
\* failed read never ends it: after any read the thread goes on to the lock.
C5_StopsOnlyOnFlagOrPoison ==
    /\ poll.pc = "done" => ~ADAPTER_READ_THREAD
    /\ poll.pc = "panicked" => mutex.poisoned
    /\ (~poll.ok /\ ~mutex.poisoned /\ ADAPTER_READ_THREAD) => ~PollEnded

\* a read failed with the stop flag clear and the thread is in the read of
\* its next iteration
C5_Witness ==
    /\ poll.pc = "read"
    /\ ~poll.ok
    /\ reads = 2
    /\ ADAPTER_READ_THREAD

PollStopped == PollEnded \/ ~alive

(***************************************************************************)
(* Scheduling: the polling thread is a running thread whose reads return   *)
(* and which gets the mutex when it is free often enough; a query that     *)
(* holds the mutex runs on.                                                *)
(***************************************************************************)
LiveSpec ==
    /\ Spec
    /\ WF_vars(PollCheck)
    /\ WF_vars(PollReadStart)
    /\ WF_vars(PollReadReturn)
    /\ SF_vars(PollLock)
    /\ WF_vars(PollLockErr)
    /\ WF_vars(PollStore1)
    /\ WF_vars(PollStore2)
    /\ WF_vars(PollSleep)
    /\ \A h \in Hosts :
          WF_vars(QLockErr(h) \/ QIsConnected(h) \/ QMap(h) \/ QStore(h))
    /\ WF_vars(Abort)

\* C6: with the stop flag set the polling thread starts at most one more
\* read, eventually leaves the loop, and from then on neither reads nor
\* publishes; PluginShutdown never waits (it can always run to its end).
C6_StopsAfterShutdown ==
    /\ [](reads_after_stop <= 1)
    /\ ((~ADAPTER_READ_THREAD /\ poll.pc # "none") ~> PollStopped)
    /\ [][PollStopped => (PollStopped' /\ reads' = reads /\ cache' = cache)]_vars
    /\ [](alive => ENABLED PluginShutdown)

\* the thread did one more read after the flag was set and has left the loop
C6_Witness == reads_after_stop = 1 /\ poll.pc = "done" /\ cache.ctl_id = reads

(***************************************************************************)
(* Scheduling for a stalled adapter: nothing is assumed of the polling     *)
(* thread's reads; a thread inside a critical section runs on, a query     *)
(* gets the mutex when it is free often enough, and a panic that has       *)
(* reached the boundary of an entry point aborts the process.              *)
(***************************************************************************)
StallSpec ==
    /\ Spec
    /\ WF_vars(PollLockErr \/ PollStore1 \/ PollStore2)
    /\ \A h \in Hosts :
          /\ WF_vars(QGet(h) \/ QLockErr(h) \/ QIsConnected(h) \/ QMap(h)
                        \/ QStore(h))
          /\ SF_vars(QLock(h))
    /\ WF_vars(Abort)

\* C7: every query in flight on the seeded cache returns, whether or not
\* the polling thread's read ever returns, for as long as the process lives
\* (a panic out of an entry point and ReadController's misaligned store end
\* the process): no query is kept waiting for the mutex.
C7_QueryReturns ==
    \A h \in Hosts :
        (InFlight(h) /\ LAST_INPUT_STATE) ~> (host[h].pc = "returned" \/ ~alive)

\* a query holds the mutex and maps a port while a read is in progress
C7_Witness == poll.pc = "read" /\ \E h \in Hosts : host[h].pc = "map"

\* C8: the cell is created and seeded at most once, at most one polling
\* thread is spawned, and the cached state is written only by PluginStartup's
\* seeding and by the polling thread's store.
C8_SingleWriter ==
    /\ [](seeds <= 1 /\ spawns <= 1 /\ (LAST_INPUT_STATE <=> seeds = 1))
    /\ [][cache' # cache => ((InStore /\ poll'.pc # poll.pc) \/ seeds' = seeds + 1)]_vars

\* PluginStartup was called again after a successful start, a shutdown and
\* a publish, and queries have run
C8_Witness ==
    /\ again_ret = M64ERR_ALREADY_INIT
    /\ seeds = 1
    /\ spawns = 1
    /\ ~ADAPTER_READ_THREAD
    /\ cache.ctl_id >= 1
    /\ \E h \in Hosts : host[h].pc = "returned" /\ host[h].ctl_id >= 0


(***************************************************************************)
(* The mapper on its own: one query, run to its end, on a cache that holds *)
(* m_in.st, with no polling thread in its way.                             *)
(***************************************************************************)
\* a cached state whose port `control` holds the pad `pad`
OnPort(control, pad) ==
    [ZeroState EXCEPT ![control] = [connected |-> TRUE, pad |-> pad]]

\* command buffers a caller of ReadController may pass in with the ReadKeys
\* command in byte 2: seven bytes, zeroed or every other byte 0xff, or the
\* six bytes the safety comment of line 226 asks for
MapCommands ==
    {<<0, 0, 1, 0, 0, 0, 0>>, <<255, 255, 1, 255, 255, 255, 255>>,
     <<255, 255, 1, 255, 255, 255>>}

\* GetKeys(control, &keys): what keys holds on return
MapGetKeys ==
    /\ m_out.via = "none"
    /\ m_out' = [NoMapperOutput EXCEPT
                   !.via = "GetKeys",
                   !.keys = read_keys(m_in.st, m_in.control, m_in.keys)]
    /\ UNCHANGED <<conc_vars, m_in>>

\* ReadController(control, command) with the ReadKeys command: what the
\* command buffer holds on return
MapReadController ==
    /\ m_out.via = "none"
    /\ \E command \in MapCommands, aligned \in BOOLEAN :
          \E o \in StoreOutcomes(aligned) :
             LET buttons == read_keys(m_in.st, m_in.control, ZeroKeys)
             IN  m_out' = [NoMapperOutput EXCEPT
                             !.via = "ReadController",
                             !.keys = buttons,
                             !.command_in = command,
                             !.aligned = aligned,
                             !.aborted = (o = "aborted"),
                             !.command = IF o = "written"
                                         THEN WriteU32(command, buttons)
                                         ELSE command,
                             !.beyond = IF o = "written"
                                        THEN WriteBeyond(command, buttons)
                                        ELSE <<>>]
    /\ UNCHANGED <<conc_vars, m_in>>

MapNext == MapGetKeys \/ MapReadController

\* the query ran to its return
Answered == m_out.via # "none" /\ ~m_out.aborted

\* the BUTTONS value the caller reads back: for ReadController the four
\* bytes from command + 3 on
Reported ==
    IF m_out.via = "ReadController"
    THEN ReadU32(m_out.command \o m_out.beyond)
    ELSE m_out.keys

\* byte values around the thresholds of the mapper
EdgeBytes == {0, 87, 88, 89, 98, 127, 128, 129, 148, 149, 158, 167, 168, 169, 255}

\* BUTTONS values a caller of GetKeys may pass in
MapKeysIn == {ZeroKeys, Buttons(65535, 255, 255)}

(***************************************************************************)
(* Main stick: every pair of stick bytes on port 0, and the pairs of edge  *)
(* bytes on every port with either content of the caller's structure.      *)
(***************************************************************************)
StickPad(sx, sy) == [RestPad EXCEPT !.stick_x = sx, !.stick_y = sy]

StickInputs ==
    {[control |-> 0, keys |-> ZeroKeys, st |-> OnPort(0, StickPad(sx, sy))] :
        sx \in Byte, sy \in Byte}
    \cup
    {[control |-> p, keys |-> k, st |-> OnPort(p, StickPad(sx, sy))] :
        p \in Ports, k \in MapKeysIn, sx \in EdgeBytes, sy \in EdgeBytes}

StickInit ==
    /\ ConcInit
    /\ m_in \in StickInputs
    /\ m_out = NoMapperOutput

StickSpec == StickInit /\ [][MapNext]_vars

\* C9: for a connected port whose main stick is at offset (x, y) from the
\* centre 128, either query reports axes (0, 0) when x*x + y*y < 1600 and
\* (x, y) otherwise.
C9_RadialDeadzone ==
    Answered =>
        LET x == m_in.st[m_in.control].pad.stick_x - 128
            y == m_in.st[m_in.control].pad.stick_y - 128
        IN  /\ x \in -128..127
            /\ y \in -128..127
            /\ x * x + y * y < 1600 =>
                  X_AXIS(Reported) = 0 /\ Y_AXIS(Reported) = 0
            /\ x * x + y * y >= 1600 =>
                  X_AXIS(Reported) = x /\ Y_AXIS(Reported) = y

\* the boundary: offset (40, 0) is reported as (40, 0)
C9_Witness ==
    /\ m_out.via = "GetKeys"
    /\ m_in.st[m_in.control].pad.stick_x = 168
    /\ m_in.st[m_in.control].pad.stick_y = 128
    /\ X_AXIS(Reported) = 40
    /\ Y_AXIS(Reported) = 0

(***************************************************************************)
(* Triggers: every byte on one trigger against the edge bytes on the       *)
(* other, with and without the digital shoulder buttons.                   *)
(***************************************************************************)
TriggerPad(tl, tr, l, r) ==
    [RestPad EXCEPT !.trigger_left = tl, !.trigger_right = tr, !.l = l, !.r = r]

TriggerInputs ==
    {[control |-> p, keys |-> ZeroKeys,
      st |-> OnPort(p, TriggerPad(t[1], t[2], l, r))] :
        p \in Ports, l \in BOOLEAN, r \in BOOLEAN,
        t \in (Byte \X {0, 148, 149, 255}) \cup ({0, 148, 149, 255} \X Byte)}

TriggerInit ==
    /\ ConcInit
    /\ m_in \in TriggerInputs
    /\ m_out = NoMapperOutput

TriggerSpec == TriggerInit /\ [][MapNext]_vars

\* C10: for a connected port, with the digital L (R) button not pressed the
\* bit 0x0020 (0x1000) of the reported value is set exactly when the left
\* (right) trigger byte is above 148.
C10_TriggerThreshold ==
    Answered =>
        LET s == m_in.st[m_in.control].pad
        IN  /\ ~s.l => (TestBit(Reported.bits, 32) <=> s.trigger_left > 148)
            /\ ~s.r => (TestBit(Reported.bits, 4096) <=> s.trigger_right > 148)

\* left trigger at 149 sets 0x0020 while the right trigger at 148 leaves
\* 0x1000 clear
C10_Witness ==
    /\ m_out.via = "ReadController"
    /\ ~m_out.aborted
    /\ LET s == m_in.st[m_in.control].pad
       IN  /\ ~s.l /\ ~s.r
           /\ s.trigger_left = 149
           /\ s.trigger_right = 148
    /\ TestBit(Reported.bits, 32)
    /\ ~TestBit(Reported.bits, 4096)

(***************************************************************************)
(* C-stick: every substick byte on one axis against the band edges on the  *)
(* other, with and without the X and Y buttons, queried into a zeroed      *)
(* structure.                                                              *)
(***************************************************************************)
BandBytes == {0, 87, 88, 128, 168, 169, 255}

CStickPad(cx, cy, x, y) ==
    [RestPad EXCEPT !.substick_x = cx, !.substick_y = cy, !.x = x, !.y = y]

CStickInputs ==
    {[control |-> p, keys |-> ZeroKeys,
      st |-> OnPort(p, CStickPad(c[1], c[2], x, y))] :
        p \in Ports, x \in BOOLEAN, y \in BOOLEAN,
        c \in (Byte \X BandBytes) \cup (BandBytes \X Byte)}

CStickInit ==
    /\ ConcInit
    /\ m_in \in CStickInputs
    /\ m_out = NoMapperOutput

CStickSpec == CStickInit /\ [][MapNext]_vars

\* C11: for a connected port with the X and Y buttons released, queried
\* into a zeroed structure, C-left (0x0200) is set exactly when substick X
\* is below 88 and C-right (0x0100) exactly when it is above 168, C-down
\* (0x0400) exactly when substick Y is below 88 and C-up (0x0800) exactly
\* when it is above 168; from 88 to 168 neither bit of the axis is set, and
\* the two bits of one axis are never set together.
C11_CStickBands ==
    Answered =>
        LET s == m_in.st[m_in.control].pad
            left == TestBit(Reported.bits, 512)
            right == TestBit(Reported.bits, 256)
            down == TestBit(Reported.bits, 1024)
            up == TestBit(Reported.bits, 2048)
        IN  /\ (~s.x /\ ~s.y) =>
                  /\ left <=> s.substick_x < 88
                  /\ right <=> s.substick_x > 168
                  /\ (s.substick_x >= 88 /\ s.substick_x <= 168) => ~left /\ ~right
                  /\ ~(left /\ right)
            /\ down <=> s.substick_y < 88
            /\ up <=> s.substick_y > 168
            /\ (s.substick_y >= 88 /\ s.substick_y <= 168) => ~down /\ ~up
            /\ ~(down /\ up)

\* substick X at 87 sets C-left while substick Y at 168 sets neither C-up
\* nor C-down
C11_Witness ==
    /\ m_out.via = "GetKeys"
    /\ LET s == m_in.st[m_in.control].pad
       IN  /\ ~s.x /\ ~s.y
           /\ s.substick_x = 87
           /\ s.substick_y = 168
    /\ TestBit(Reported.bits, 512)
    /\ ~TestBit(Reported.bits, 256)
    /\ ~TestBit(Reported.bits, 1024)
    /\ ~TestBit(Reported.bits, 2048)

(***************************************************************************)
(* Buttons: every combination of the twelve digital buttons, and a grid of *)
(* analog positions, on every port, connected or not, with either content  *)
(* of the caller's structure.                                              *)
(***************************************************************************)
DigitalPads ==
    {[RestPad EXCEPT !.a = f[1], !.b = f[2], !.x = f[3], !.y = f[4],
                     !.start = f[5], !.l = f[6], !.r = f[7], !.z = f[8],
                     !.up = f[9], !.down = f[10], !.left = f[11],
                     !.right = f[12]] : f \in [1..12 -> BOOLEAN]}

AnalogPads ==
    {[RestPad EXCEPT !.stick_x = sx, !.stick_y = sy, !.substick_x = cx,
                     !.substick_y = cy, !.trigger_left = t,
                     !.trigger_right = 255 - t] :
        sx \in {0, 128, 255}, sy \in {0, 128, 255}, cx \in {0, 128, 255},
        cy \in {0, 128, 255}, t \in {0, 255}}

ButtonInputs ==
    {[control |-> p, keys |-> k,
      st |-> [ZeroState EXCEPT ![p] = [connected |-> c, pad |-> pad]]] :
        p \in Ports, k \in MapKeysIn, c \in BOOLEAN,
        pad \in DigitalPads \cup AnalogPads}

ButtonInit ==
    /\ ConcInit
    /\ m_in \in ButtonInputs
    /\ m_out = NoMapperOutput

ButtonSpec == ButtonInit /\ [][MapNext]_vars

\* C12: for a port the cached state reports as not connected, whatever its
\* button and analog fields hold, GetKeys leaves the caller's BUTTONS as it
\* was, and ReadController with the ReadKeys command returns having written
\* 0 into bytes 3..6 of the command buffer and nothing past its end.
C12_DisconnectedYieldsNothing ==
    (m_out.via # "none" /\ ~m_in.st[m_in.control].connected) =>
        /\ m_out.via = "GetKeys" => m_out.keys = m_in.keys
        /\ m_out.via = "ReadController" =>
              /\ ~m_out.aborted
              /\ m_out.beyond = <<>>
              /\ \A i \in 4..7 : m_out.command[i] = 0

\* C13: for every main-stick byte b, the signed offset the mapper uses,
\* wrapping_add(b, 128) reinterpreted as a signed 8-bit value, equals
\* b - 128 and lies in -128..127; a stick at (128, 128) has offset (0, 0)
\* and is reported as axes (0, 0).
C13_SignedOffset ==
    Answered =>
        LET s == m_in.st[m_in.control].pad
            x == as_i8(wrapping_add(s.stick_x, 128))
            y == as_i8(wrapping_add(s.stick_y, 128))
        IN  /\ x = s.stick_x - 128 /\ x \in -128..127
            /\ y = s.stick_y - 128 /\ y \in -128..127
            /\ (s.stick_x = 128 /\ s.stick_y = 128) =>
                  /\ x = 0 /\ y = 0
                  /\ Stick(s) = <<0, 0>>
                  /\ X_AXIS(Reported) = 0 /\ Y_AXIS(Reported) = 0

\* the ends of the range: bytes (0, 255) are offsets (-128, 127), reported
\* as they are
C13_Witness ==
    /\ m_out.via = "GetKeys"
    /\ m_in.st[m_in.control].pad.stick_x = 0
    /\ m_in.st[m_in.control].pad.stick_y = 255
    /\ X_AXIS(Reported) = -128
    /\ Y_AXIS(Reported) = 127

(***************************************************************************)
(* PluginStartup's failures.                                               *)
(***************************************************************************)
\* the first PluginStartup found the symbol and then failed the version
\* test or the connection to the adapter
StartupFailed ==
    /\ startup_in.called
    /\ startup_in.sym
    /\ ~startup_in.version_ok \/ startup_in.connect \in ConnectErrors

\* C14: when the core API version test fails or connecting to the adapter
\* fails, PluginStartup returns an error (M64ERR_INCOMPATIBLE, respectively
\* M64ERR_PLUGIN_FAIL), the cell is not created or seeded and no polling
\* thread is started, then or later.
C14_FailedStartupStartsNothing ==
    StartupFailed =>
        /\ startup_pc = "returned"
        /\ startup_ret \in {M64ERR_INCOMPATIBLE, M64ERR_PLUGIN_FAIL}
        /\ startup_ret = M64ERR_INCOMPATIBLE <=> ~startup_in.version_ok
        /\ startup_ret = M64ERR_PLUGIN_FAIL <=>
              startup_in.version_ok /\ startup_in.connect \in ConnectErrors
        /\ ~LAST_INPUT_STATE
        /\ cache = EmptyCache
        /\ seeds = 0
        /\ spawns = 0
        /\ poll = NoPoll
        /\ reads = 0

\* the adapter was not found: PluginStartup returned M64ERR_PLUGIN_FAIL, and
\* a query made afterwards found no cell
C14_Witness ==
    /\ startup_in.called
    /\ startup_in.connect = "NotFound"
    /\ startup_ret = M64ERR_PLUGIN_FAIL
    /\ ~LAST_INPUT_STATE
    /\ spawns = 0
    /\ \E h \in Hosts : host[h].pc = "panicked"

\* C15: a PluginStartup that failed at one connect stage reports a reason,
\* its return value and its error message, that differs from the reason it
\* reports for every other connect stage.
C15_DistinctReasons ==
    (startup_in.called /\ startup_ret = M64ERR_PLUGIN_FAIL) =>
        \A e \in ConnectErrors \ {startup_in.connect} :
            <<startup_ret, startup_log>> #
                <<ConnectReturn(e), ConnectLog(e)>>

\* C16: for a connected port, what GetKeys leaves in the caller's BUTTONS is
\* computed from the port's cached state alone: a GetKeys call against the
\* same cached state with any other content of the structure before the
\* call leaves the same button bits and the same axes.
C16_RecomputedFromCache ==
    (m_out.via = "GetKeys" /\ m_in.st[m_in.control].connected) =>
        \A k \in MapKeysIn :
            LET other == read_keys(m_in.st, m_in.control, k)
            IN  /\ other.bits = m_out.keys.bits
                /\ X_AXIS(other) = X_AXIS(m_out.keys)
                /\ Y_AXIS(other) = Y_AXIS(m_out.keys)

\* the query wrote into a zeroed structure: ReadController always does,
\* GetKeys when the caller passed one
IntoZeroed == m_out.via = "ReadController" \/ m_in.keys = ZeroKeys

\* C17: for a connected port queried into a zeroed structure, D-pad right
\* sets 0x0001, left 0x0002, down 0x0004, up 0x0008, Start 0x0010, B 0x0040,
\* A 0x0080 and Z 0x2000, each bit set exactly when its button is pressed,
\* and no bit outside 0x3FFF is set in the button mask.
C17_DirectButtons ==
    (Answered /\ IntoZeroed /\ m_in.st[m_in.control].connected) =>
        LET s == m_in.st[m_in.control].pad
            v == Reported.bits
        IN  /\ TestBit(v, 1) <=> s.right
            /\ TestBit(v, 2) <=> s.left
            /\ TestBit(v, 4) <=> s.down
            /\ TestBit(v, 8) <=> s.up
            /\ TestBit(v, 16) <=> s.start
            /\ TestBit(v, 64) <=> s.b
            /\ TestBit(v, 128) <=> s.a
            /\ TestBit(v, 8192) <=> s.z
            /\ v < 16384

\* Start, B and Z pressed and nothing else: exactly 0x0010, 0x0040 and
\* 0x2000 are set
C17_Witness ==
    /\ m_out.via = "GetKeys"
    /\ m_in.keys = ZeroKeys
    /\ m_in.st[m_in.control].connected
    /\ m_in.st[m_in.control].pad =
          [RestPad EXCEPT !.start = TRUE, !.b = TRUE, !.z = TRUE]
    /\ Reported.bits = 16 + 64 + 8192

\* C18: for a connected port queried into a zeroed structure, C-left
\* (0x0200) is set exactly when the Y button is pressed or substick X is
\* below 88, C-right (0x0100) exactly when the X button is pressed or
\* substick X is above 168; C-down and C-up follow substick Y alone,
\* whatever the X and Y buttons are.
C18_ButtonAssistedC ==
    Answered =>
        LET s == m_in.st[m_in.control].pad
            v == Reported.bits
        IN  /\ TestBit(v, 512) <=> (s.y \/ s.substick_x < 88)
            /\ TestBit(v, 256) <=> (s.x \/ s.substick_x > 168)
            /\ TestBit(v, 1024) <=> s.substick_y < 88
            /\ TestBit(v, 2048) <=> s.substick_y > 168

\* the Y button with the substick centred sets C-left and nothing else
C18_Witness ==
    /\ m_out.via = "ReadController"
    /\ ~m_out.aborted
    /\ LET s == m_in.st[m_in.control].pad
       IN  /\ s.y /\ ~s.x
           /\ s.substick_x = 128
           /\ s.substick_y = 128
    /\ Reported.bits = 512

\* C19: for a port of the collection and every cached state, ReadController
\* with the ReadKeys command returns having left in bytes 3..6 of the
\* command buffer the 32-bit value that GetKeys produces for that port in a
\* zeroed BUTTONS, and having changed no other byte, inside the buffer or
\* past its end.
C19_PathsAgree ==
    m_out.via = "ReadController" =>
        /\ ~m_out.aborted
        /\ m_out.beyond = <<>>
        /\ Len(m_out.command) = Len(m_out.command_in)
        /\ \A i \in 1..3 : m_out.command[i] = m_out.command_in[i]
        /\ ReadU32(m_out.command) = read_keys(m_in.st, m_in.control, ZeroKeys)

(***************************************************************************)
(* The stop flag after PluginShutdown.                                     *)
(***************************************************************************)
\* C20 as stated: the stop flag is never set back, and once it is set the
\* polling thread starts no read of the adapter.
C20_NoReadAfterShutdown ==
    [][/\ ~ADAPTER_READ_THREAD => ~ADAPTER_READ_THREAD'
       /\ ~ADAPTER_READ_THREAD => reads' = reads]_vars

\* C20: the stop flag is never set back by any entry point; once it is set
\* the polling thread starts at most one more read, that of the iteration
\* already past the loop test; once the thread has ended it stays ended,
\* the cache holds one complete publish and never changes again, and every
\* query that reads the cache from then on reads that state.
C20_FlagMonotonic ==
    [][/\ ~ADAPTER_READ_THREAD => ~ADAPTER_READ_THREAD'
       /\ ~ADAPTER_READ_THREAD => reads_after_stop' <= 1
       /\ PollEnded =>
             /\ PollEnded'
             /\ reads' = reads
             /\ cache' = cache
             /\ cache.conn_id = cache.ctl_id
             /\ \A h \in Hosts :
                   /\ (host[h].pc = "conn" /\ host'[h].pc \in {"map", "returned"})
                         => host'[h].conn_id = cache.conn_id
                   /\ (host[h].pc = "map" /\ host'[h].pc = "returned")
                         => /\ host'[h].ctl_id = cache.ctl_id
                            /\ host'[h].conn_id = cache.conn_id]_vars

\* after a shutdown the thread made its one last read and ended, another
\* PluginStartup was refused, and a query returned the last publish
C20_Witness ==
    /\ ~ADAPTER_READ_THREAD
    /\ poll.pc = "done"
    /\ reads_after_stop = 1
    /\ again_ret = M64ERR_ALREADY_INIT
    /\ cache.ctl_id = reads
    /\ \E h \in Hosts :
          /\ host[h].pc = "returned"
          /\ host[h].ctl_id = cache.ctl_id
          /\ host[h].conn_id = cache.conn_id

====
